---- MODULE Spec2Model ----
(***************************************************************************)
(* TimeCrystalAnalyzer (src/tca.py): the analysis pipeline                 *)
(*   find_dominant_frequencies -> extract_components -> analyze_phases     *)
(* as run by analyze_signal on an analyzer built by __init__.              *)
(*                                                                         *)
(* Numbers.  A real signal of n samples is given by its content per DFT    *)
(* bin: signal.tones[k] is the amplitude of the sinusoid of k cycles per   *)
(* n samples (k = 0 is the constant offset).  Amplitudes are integers.     *)
(* A frequency k * sampling_rate / n (Hz) is kept as the integer           *)
(* k * sampling_rate, that is in units of 1/n Hz; band edges are kept in   *)
(* units of 1/(20 n) Hz, which makes 0.5, 0.2 f and the halving exact.     *)
(* A filtered component and a phase series are kept by their length and    *)
(* by the frequencies they were computed from; their sample values are     *)
(* not modelled.                                                           *)
(***************************************************************************)
EXTENDS Integers, Sequences, FiniteSets

(* ------------------------------ bounds -------------------------------- *)
\* largest amplitude of an ordinary tone
MaxAmp == 2
\* most tones of a freely placed signal
MaxTones == 2
\* most tones of a harmonic signal (tones at multiples of FundamentalBin)
MaxHarm == 6
\* bin of the fundamental of a harmonic signal
FundamentalBin == 2

(* ------------------------- program constants -------------------------- *)
\* sampling_rate=1000, the default of __init__
DefaultSamplingRate == 1000
\* order=5 of butter_bandpass
FilterOrder == 5
\* dominant_freqs[:5]
MaxPeaks == 5
\* height = prominence = 0.05 * max, as 1/20
ThresholdDen == 20
\* distance = int(n/100)
DistanceDen == 100

(* ------------------------------ inputs -------------------------------- *)
\* an amplitude 20 times above the ordinary ones, so that the 5% thresholds
\* of find_peaks reject some peaks (never an exact multiple of ThresholdDen)
LoudAmp == 14 * MaxAmp + 1

AmpSet == (1..MaxAmp) \cup {LoudAmp}

Rates == {-4, 0, 4, DefaultSamplingRate}

Lengths == {0, 1, 2, 9, 10, 99, 100, 101, 300}

NumBins(n) == n \div 2

\* bins a freely placed tone may sit in: the lowest ones and the two highest
CandBins(n) == {k \in {0, 1, 2, 3, NumBins(n) - 2, NumBins(n) - 1} :
                  0 <= k /\ k < NumBins(n)}

FreeTones(n) ==
  UNION {[B -> AmpSet] : B \in {S \in SUBSET CandBins(n) : Cardinality(S) <= MaxTones}}

\* a harmonic signal: tones on the first h multiples of the fundamental bin,
\* all of one amplitude but one emphasized harmonic
HarmonicTones(n) ==
  {[k \in {FundamentalBin * j : j \in 1..h} |-> IF k = FundamentalBin * e THEN b ELSE a] :
     h \in {i \in 1..MaxHarm : FundamentalBin * i < NumBins(n) - 1},
     e \in 1..MaxHarm, a \in 1..MaxAmp, b \in 1..MaxAmp}

Signals ==
  UNION {{[len |-> n, tones |-> t] : t \in FreeTones(n) \cup HarmonicTones(n)} :
           n \in Lengths}

(* ----------------------------- helpers -------------------------------- *)
Max(a, b) == IF a >= b THEN a ELSE b

Min(a, b) == IF a <= b THEN a ELSE b

SetMax(S) == CHOOSE x \in S : \A y \in S : y <= x

SetMin(S) == CHOOSE x \in S : \A y \in S : x <= y

Range(s) == {s[i] : i \in DOMAIN s}

\* s[:k]
Take(s, k) == SubSeq(s, 1, Min(k, Len(s)))

\* s[::-1]
Reverse(s) == [i \in 1..Len(s) |-> s[Len(s) + 1 - i]]

\* np.argsort(keys): the positions of keys in ascending order of key.  The
\* default sort is not stable: the order among equal keys is unspecified and
\* is taken here as ascending position (stable) or descending position.
RECURSIVE ArgsortFrom(_, _, _)
ArgsortFrom(keys, left, stable) ==
  IF left = {} THEN <<>>
  ELSE LET lo == SetMin({keys[i] : i \in left})
           ties == {i \in left : keys[i] = lo}
           pick == IF stable THEN SetMin(ties) ELSE SetMax(ties)
       IN <<pick>> \o ArgsortFrom(keys, left \ {pick}, stable)

Argsort(keys, stable) == ArgsortFrom(keys, DOMAIN keys, stable)

(* ------------------------- the spectrum ------------------------------- *)
Amp(sig, k) == IF k \in DOMAIN sig.tones THEN sig.tones[k] ELSE 0

\* magnitude_spectrum = 2.0/n * np.abs(yf[:n//2]): a sinusoid of amplitude A
\* on bin k >= 1 has |yf[k]| = A n / 2, an offset c has |yf[0]| = |c| n.
MagnitudeSpectrum(sig) ==
  [k \in 0..(NumBins(sig.len) - 1) |-> IF k = 0 THEN 2 * Amp(sig, 0) ELSE Amp(sig, k)]

\* positive_freqs = fft.fftfreq(n, dt)[:n//2], bin k -> k / (n dt), in 1/n Hz
PositiveFreq(k, rate) == k * rate

(* ------------------------ scipy find_peaks ---------------------------- *)
\* the inner loop of _local_maxima_1d: the end of a plateau starting at i
RECURSIVE PlateauEnd(_, _, _, _)
PlateauEnd(x, imax, i, ia) ==
  IF ia < imax /\ x[ia] = x[i] THEN PlateauEnd(x, imax, i, ia + 1) ELSE ia

\* the elements of a set of integers in ascending order
RECURSIVE Ascending(_)
Ascending(S) ==
  IF S = {} THEN <<>> ELSE <<SetMin(S)>> \o Ascending(S \ {SetMin(S)})

\* _local_maxima_1d: the scan takes every i in 1..imax-1 with x[i-1] < x[i]
\* whose plateau ends (at ia - 1) before a lower sample, and yields the
\* plateau's midpoint; the first and the last sample are never among them.
\* (The scan resumes after the plateau; no sample inside a plateau rises
\* above its left neighbour, so the set of all such i is what it finds.)
LocalMaxima1d(x, imax) ==
  Ascending({(i + PlateauEnd(x, imax, i, i + 1) - 1) \div 2 :
               i \in {j \in 1..(imax - 1) :
                        /\ x[j - 1] < x[j]
                        /\ x[PlateauEnd(x, imax, j, j + 1)] < x[j]}})

\* peaks[keep]: the peaks of s that are in kept, in the order of s
SelectPeaks(s, kept) ==
  LET F[i \in 0..Len(s)] ==
        IF i = 0 THEN <<>>
        ELSE IF s[i] \in kept THEN Append(F[i - 1], s[i]) ELSE F[i - 1]
  IN F[Len(s)]

\* _select_by_peak_distance: peaks taken from the highest priority down, each
\* kept peak removing the peaks closer than distance on both sides
RECURSIVE SelectByPeakDistance(_, _, _, _, _)
SelectByPeakDistance(peaks, order, distance, i, keep) ==
  IF i = 0 THEN keep
  ELSE LET j == order[i]
       IN IF ~keep[j]
          THEN SelectByPeakDistance(peaks, order, distance, i - 1, keep)
          ELSE SelectByPeakDistance(peaks, order, distance, i - 1,
                 [k \in DOMAIN keep |->
                    IF k # j /\ (IF k < j THEN peaks[j] - peaks[k]
                                          ELSE peaks[k] - peaks[j]) < distance
                    THEN FALSE ELSE keep[k]])

\* _peak_prominences, one side (step = -1 left, +1 right): the scan runs from
\* the peak outwards while x[i] <= x[peak], so it ends before the nearest
\* sample higher than the peak, or at the edge; the lowest sample it passes
BaseMin(x, imaxx, peak, step) ==
  LET higher == {i \in 0..imaxx : (i - peak) * step > 0 /\ x[i] > x[peak]}
      stop == IF higher = {} THEN (IF step < 0 THEN -1 ELSE imaxx + 1)
              ELSE IF step < 0 THEN SetMax(higher) ELSE SetMin(higher)
      lo == IF step < 0 THEN stop + 1 ELSE peak
      hi == IF step < 0 THEN peak ELSE stop - 1
  IN SetMin({x[i] : i \in lo..hi})

\* _peak_prominences: x[peak] - max(left_min, right_min)
PeakProminence(x, imaxx, peak) ==
  x[peak] - Max(BaseMin(x, imaxx, peak, -1), BaseMin(x, imaxx, peak, 1))

\* find_peaks, height: keep = (0.05 * max <= x[peaks])
SelectByHeight(x, hmax, maxima) ==
  SelectPeaks(maxima, {p \in Range(maxima) : ThresholdDen * x[p] >= hmax})

\* find_peaks, distance: peaks[keep], the priority of a peak being its height
SelectByDistance(x, high, distance, stable) ==
  LET keep == SelectByPeakDistance(high,
                Argsort([i \in 1..Len(high) |-> x[high[i]]], stable),
                distance, Len(high), [i \in 1..Len(high) |-> TRUE])
  IN SelectPeaks(high, {high[i] : i \in {j \in 1..Len(high) : keep[j]}})

\* find_peaks, prominence: keep = (0.05 * max <= prominences)
SelectByProminence(x, size, hmax, apart) ==
  SelectPeaks(apart,
    {p \in Range(apart) : ThresholdDen * PeakProminence(x, size - 1, p) >= hmax})

\* the peaks and properties['prominences'] that find_peaks returns
WithProminences(x, size, prominent) ==
  [peaks |-> prominent,
   prominences |-> [i \in 1..Len(prominent) |-> PeakProminence(x, size - 1, prominent[i])]]

\* find_peaks(x, height = hmax/20, distance, prominence = hmax/20), x of
\* size >= 1 and distance >= 1: the peaks, ascending, and their prominences
FindPeaks(x, size, hmax, distance, stable) ==
  WithProminences(x, size,
    SelectByProminence(x, size, hmax,
      SelectByDistance(x,
        SelectByHeight(x, hmax, LocalMaxima1d(x, size - 1)),
        distance, stable)))

(* --------------------- find_dominant_frequencies ---------------------- *)
NoPeaks == [peaks |-> <<>>, prominences |-> <<>>]

\* SortByProminence without the [::-1] of line 41
SortByProminenceAscending(peaks, sorted_idx) ==
  [i \in 1..Len(sorted_idx) |-> peaks[Reverse(sorted_idx)[i]]]

\* peaks = peaks[np.argsort(properties['prominences'])[::-1]]
SortByProminence(peaks, sorted_idx) ==
  [i \in 1..Len(sorted_idx) |-> peaks[sorted_idx[i]]]

\* TopPeaks without the [:5] of line 48
TopPeaksUncut(x, rate, fnd, peaks) ==
  [error |-> "none", found |-> fnd, peaks |-> peaks,
   frequencies |-> [i \in 1..Len(peaks) |-> PositiveFreq(peaks[i], rate)],
   magnitudes |-> [i \in 1..Len(peaks) |-> x[peaks[i]]]]

\* lines 45-48: positive_freqs[peaks][:5] and magnitude_spectrum[peaks][:5]
TopPeaks(x, rate, fnd, peaks) ==
  [error |-> "none", found |-> fnd, peaks |-> peaks,
   frequencies |-> Take([i \in 1..Len(peaks) |-> PositiveFreq(peaks[i], rate)], MaxPeaks),
   magnitudes |-> Take([i \in 1..Len(peaks) |-> x[peaks[i]]], MaxPeaks)]

\* lines 41-48 on what find_peaks returned
RankPeaks(x, rate, fnd, stable) ==
  TopPeaks(x, rate, fnd,
           SortByProminence(fnd.peaks, Reverse(Argsort(fnd.prominences, stable))))

\* lines 35-48 on the magnitude spectrum x of size >= 1 bins
PeaksOfSpectrum(x, size, rate, distance, stable) ==
  RankPeaks(x, rate, FindPeaks(x, size, SetMax(Range(x)), distance, stable), stable)

\* the outcome of find_dominant_frequencies: an error (fft of no samples,
\* np.max of an empty spectrum, find_peaks with distance < 1), or the peaks
\* with the returned frequencies and magnitudes
FindDominantFrequencies(sig, rate, stable) ==
  IF sig.len = 0 \/ NumBins(sig.len) = 0 \/ sig.len \div DistanceDen < 1
  THEN [error |-> "ValueError"]
  ELSE PeaksOfSpectrum(MagnitudeSpectrum(sig), NumBins(sig.len), rate,
                       sig.len \div DistanceDen, stable)

(* ------------------------- extract_components ------------------------- *)
\* bandwidth/2 = max(0.5, freq * 0.2)/2 for freq in 1/n Hz, in 1/(20 n) Hz
HalfBandwidth(freq, n) == Max(5 * n, 2 * freq)

\* lowcut = freq - bandwidth/2, in 1/(20 n) Hz
Lowcut(freq, n) == 20 * freq - HalfBandwidth(freq, n)

\* highcut = freq + bandwidth/2, in 1/(20 n) Hz
Highcut(freq, n) == 20 * freq + HalfBandwidth(freq, n)

\* nyq = 0.5 * sampling_rate, in 1/(20 n) Hz
Nyquist(rate, n) == 10 * n * rate

\* a / nyq > 0 and a / nyq < 1, nyq # 0 of either sign
InUnitInterval(a, nyq) ==
  IF nyq > 0 THEN 0 < a /\ a < nyq ELSE nyq < a /\ a < 0

\* low / nyq < high / nyq
NormalizedBelow(low, high, nyq) == IF nyq > 0 THEN low < high ELSE low > high

\* butter_bandpass -> scipy butter(order, [low, high], btype='band'): critical
\* frequencies outside 0 < Wn < 1 are a ValueError; Wn[0] >= Wn[1] is a
\* ValueError in a scipy that checks it (strict) and a filter otherwise
ButterBandpass(lowcut, highcut, rate, n, strict) ==
  LET nyq == Nyquist(rate, n)
  IN IF ~(InUnitInterval(lowcut, nyq) /\ InUnitInterval(highcut, nyq))
     THEN "ValueError"
     ELSE IF strict /\ ~NormalizedBelow(lowcut, highcut, nyq) THEN "ValueError"
     ELSE "ok"

\* filtfilt pads by padlen = 3 * max(len(a), len(b)) samples, a and b of
\* 2 * order + 1 coefficients, and needs more samples than that
PadLen == 3 * (2 * FilterOrder + 1)

\* FiltFilt keeping the padding on both ends
FiltFiltPadded(n, freq) ==
  IF n <= PadLen THEN [error |-> "ValueError", len |-> 0, centre |-> freq]
  ELSE [error |-> "none", len |-> n + 2 * PadLen, centre |-> freq]

\* filtfilt(b, a, signal): as long as the signal
FiltFilt(n, freq) ==
  IF n <= PadLen THEN [error |-> "ValueError", len |-> 0, centre |-> freq]
  ELSE [error |-> "none", len |-> n, centre |-> freq]

\* the loop of extract_components from position i, components and the calls
\* of butter_bandpass so far: the first failing frequency raises
RECURSIVE ExtractFrom(_, _, _, _, _, _, _)
ExtractFrom(n, freqs, rate, strict, i, components, calls) ==
  IF i > Len(freqs) THEN [error |-> "none", components |-> components, calls |-> calls]
  ELSE LET freq == freqs[i]
           band == [freq |-> freq, lowcut |-> Lowcut(freq, n), highcut |-> Highcut(freq, n)]
           called == Append(calls, band)
           design == ButterBandpass(band.lowcut, band.highcut, rate, n, strict)
           filtered == FiltFilt(n, freq)
       IN IF design # "ok"
          THEN [error |-> design, components |-> components, calls |-> called]
          ELSE IF filtered.error # "none"
          THEN [error |-> filtered.error, components |-> components, calls |-> called]
          ELSE ExtractFrom(n, freqs, rate, strict, i + 1,
                 [f \in DOMAIN components \cup {freq} |->
                    IF f = freq THEN [len |-> filtered.len, centre |-> filtered.centre]
                    ELSE components[f]],
                 called)

\* the empty dict
NoMap == [f \in {} |-> 0]

ExtractComponents(sig, freqs, rate, strict) ==
  ExtractFrom(sig.len, freqs, rate, strict, 1, NoMap, <<>>)

(* --------------------------- analyze_phases --------------------------- *)
\* phase - ref_phase, sample for sample: the length of both
PhaseLen(component, reference) == component.len

\* AnalyzePhases without the test freq != reference_freq of line 80
AnalyzePhasesWithReference(components) ==
  IF DOMAIN components = {}
  THEN [error |-> "ValueError", phases |-> [f \in {} |-> 0]]
  ELSE LET reference_freq == SetMin(DOMAIN components)
       IN [error |-> "none",
           phases |-> [f \in DOMAIN components |->
                        [len |-> PhaseLen(components[f], components[reference_freq]),
                         of |-> f, reference |-> reference_freq]]]

\* analyze_phases: min() of no keys raises; every key but the minimum gets
\* its phase relative to the minimum key's component
AnalyzePhases(components) ==
  IF DOMAIN components = {}
  THEN [error |-> "ValueError", phases |-> NoMap]
  ELSE LET reference_freq == SetMin(DOMAIN components)
       IN [error |-> "none",
           phases |-> [f \in {g \in DOMAIN components : g # reference_freq} |->
                        [len |-> PhaseLen(components[f], components[reference_freq]),
                         of |-> f, reference |-> reference_freq]]]

(* ------------------------------ state --------------------------------- *)
\* pc: the line analyze_signal is at; found, peaks: the locals of
\* find_dominant_frequencies (lines 35 and 42); calls: the passbands
\* butter_bandpass was called with; outcome, failed_at: how the call ended
VARIABLES pc, sampling_rate, signal, found, peaks, frequencies, magnitudes,
          calls, components, phases, result, outcome, failed_at

vars == <<pc, sampling_rate, signal, found, peaks, frequencies, magnitudes,
          calls, components, phases, result, outcome, failed_at>>

NoSignal == [len |-> 0, tones |-> <<>>]

NoResult == [frequencies |-> <<>>, magnitudes |-> <<>>,
             components |-> NoMap, phases |-> NoMap]

Init ==
  /\ pc = "new"
  /\ sampling_rate = 0
  /\ signal = NoSignal
  /\ found = NoPeaks
  /\ peaks = <<>>
  /\ frequencies = <<>>
  /\ magnitudes = <<>>
  /\ calls = <<>>
  /\ components = NoMap
  /\ phases = NoMap
  /\ result = NoResult
  /\ outcome = "none"
  /\ failed_at = "none"

\* __init__: dt = 1/sampling_rate
Construct ==
  /\ pc = "new"
  /\ \E rate \in Rates :
       /\ sampling_rate' = rate
       /\ IF rate = 0
          THEN pc' = "done" /\ outcome' = "ZeroDivisionError" /\ failed_at' = "__init__"
          ELSE pc' = "ready" /\ UNCHANGED <<outcome, failed_at>>
  /\ UNCHANGED <<signal, found, peaks, frequencies, magnitudes, calls, components,
                 phases, result>>

\* analyze_signal is called with a signal
CallAnalyzeSignal ==
  /\ pc = "ready"
  /\ \E sig \in Signals : signal' = sig
  /\ pc' = "find"
  /\ UNCHANGED <<sampling_rate, found, peaks, frequencies, magnitudes, calls,
                 components, phases, result, outcome, failed_at>>

\* analyze_signal, line 93: find_dominant_frequencies
FindStep ==
  /\ pc = "find"
  /\ \E stable \in BOOLEAN :
       LET r == FindDominantFrequencies(signal, sampling_rate, stable)
       IN IF r.error # "none"
          THEN /\ pc' = "done"
               /\ outcome' = r.error
               /\ failed_at' = "find_dominant_frequencies"
               /\ UNCHANGED <<found, peaks, frequencies, magnitudes>>
          ELSE /\ pc' = "report"
               /\ found' = r.found
               /\ peaks' = r.peaks
               /\ frequencies' = r.frequencies
               /\ magnitudes' = r.magnitudes
               /\ UNCHANGED <<outcome, failed_at>>
  /\ UNCHANGED <<sampling_rate, signal, calls, components, phases, result>>

\* analyze_signal, lines 94-95: magnitudes / np.max(magnitudes), and np.max
\* of an empty array raises
ReportStep ==
  /\ pc = "report"
  /\ IF magnitudes = <<>>
     THEN pc' = "done" /\ outcome' = "ValueError" /\ failed_at' = "analyze_signal"
     ELSE pc' = "extract" /\ UNCHANGED <<outcome, failed_at>>
  /\ UNCHANGED <<sampling_rate, signal, found, peaks, frequencies, magnitudes,
                 calls, components, phases, result>>

\* analyze_signal, line 98: extract_components
ExtractStep ==
  /\ pc = "extract"
  /\ \E strict \in BOOLEAN :
       LET r == ExtractComponents(signal, frequencies, sampling_rate, strict)
       IN /\ calls' = r.calls
          /\ IF r.error # "none"
             THEN /\ pc' = "done"
                  /\ outcome' = r.error
                  /\ failed_at' = "extract_components"
                  /\ UNCHANGED components
             ELSE /\ pc' = "phases"
                  /\ components' = r.components
                  /\ UNCHANGED <<outcome, failed_at>>
  /\ UNCHANGED <<sampling_rate, signal, found, peaks, frequencies, magnitudes,
                 phases, result>>

\* analyze_signal, line 101: analyze_phases
PhasesStep ==
  /\ pc = "phases"
  /\ LET r == AnalyzePhases(components)
     IN IF r.error # "none"
        THEN /\ pc' = "done"
             /\ outcome' = r.error
             /\ failed_at' = "analyze_phases"
             /\ UNCHANGED phases
        ELSE /\ pc' = "return"
             /\ phases' = r.phases
             /\ UNCHANGED <<outcome, failed_at>>
  /\ UNCHANGED <<sampling_rate, signal, found, peaks, frequencies, magnitudes,
                 calls, components, result>>

\* analyze_signal, lines 103-108: the result
ReturnStep ==
  /\ pc = "return"
  /\ result' = [frequencies |-> frequencies, magnitudes |-> magnitudes,
                components |-> components, phases |-> phases]
  /\ pc' = "done"
  /\ outcome' = "returned"
  /\ UNCHANGED <<sampling_rate, signal, found, peaks, frequencies, magnitudes,
                 calls, components, phases, failed_at>>

Next ==
  \/ Construct
  \/ CallAnalyzeSignal
  \/ FindStep
  \/ ReportStep
  \/ ExtractStep
  \/ PhasesStep
  \/ ReturnStep

Spec == Init /\ [][Next]_vars

(* ------------------------------ claims -------------------------------- *)
\* find_dominant_frequencies has returned to analyze_signal
FindReturned ==
  \/ pc \in {"report", "extract", "phases", "return"}
  \/ pc = "done" /\ failed_at \notin {"__init__", "find_dominant_frequencies"}

\* the bin a returned frequency belongs to
BinOf(freq) == CHOOSE k \in 0..(NumBins(signal.len) - 1) : PositiveFreq(k, sampling_rate) = freq

\* the prominence of a bin of the signal's spectrum
ProminenceOf(k) == PeakProminence(MagnitudeSpectrum(signal), NumBins(signal.len) - 1, k)

\* the passband of a frequency as the specification validates it:
\* lowcut > 0, highcut < Nyquist, lowcut < highcut
ValidPassband(freq) ==
  /\ Lowcut(freq, signal.len) > 0
  /\ Highcut(freq, signal.len) < Nyquist(sampling_rate, signal.len)
  /\ Lowcut(freq, signal.len) < Highcut(freq, signal.len)

\* C1: when find_dominant_frequencies finds no peak, analyze_signal raises
\* nothing and returns empty frequencies, magnitudes, components and phases
\* (stated for an analyzer with a positive sampling rate).
C1_ZeroPeaksHandled ==
  (sampling_rate > 0 /\ FindReturned /\ frequencies = <<>>) =>
     /\ outcome \in {"none", "returned"}
     /\ pc = "done" =>
          /\ result.frequencies = <<>> /\ result.magnitudes = <<>>
          /\ DOMAIN result.components = {} /\ DOMAIN result.phases = {}

\* C2: the filter design routine is never called with an invalid passband,
\* and a frequency with an invalid passband ends in a FilterDesignError
\* (stated for an analyzer with a positive sampling rate).
C2_PassbandValidated ==
  sampling_rate > 0 =>
     /\ \A i \in DOMAIN calls : ValidPassband(calls[i].freq)
     /\ (pc = "done" /\ \E i \in DOMAIN frequencies : ~ValidPassband(frequencies[i]))
          => outcome = "FilterDesignError"

\* C3: once extract_components has run, the components map holds an entry
\* for every frequency of the list whose passband is valid, whatever the
\* other frequencies of the list (stated for an analyzer with a positive
\* sampling rate).
C3_ValidFrequenciesKept ==
  (sampling_rate > 0 /\ calls # <<>> /\ pc # "extract") =>
     \A i \in DOMAIN frequencies :
        ValidPassband(frequencies[i]) => frequencies[i] \in DOMAIN components

\* C4: find_dominant_frequencies returns at most 5 frequencies and as many
\* magnitudes as frequencies.
C4_AtMostFivePaired ==
  FindReturned =>
     /\ Len(frequencies) <= 5
     /\ Len(magnitudes) = Len(frequencies)

\* C4, witness: more than 5 peaks qualified and 5 were returned
C4_Witness ==
  FindReturned /\ sampling_rate > 0 /\ Len(found.peaks) > 5 /\ Len(frequencies) = 5 /\ Len(magnitudes) = 5

\* the returned peaks as <<position, bin, prominence, magnitude>>
Returned ==
  {<<i, BinOf(frequencies[i]), ProminenceOf(BinOf(frequencies[i])), magnitudes[i]>> :
     i \in DOMAIN frequencies}

\* the candidate peaks left out as <<bin, prominence>>
LeftOut ==
  {<<c, ProminenceOf(c)>> :
     c \in Range(found.peaks) \ {BinOf(frequencies[i]) : i \in DOMAIN frequencies}}

\* C5: the returned frequencies are the (up to) 5 candidate peaks of highest
\* prominence, in descending order of prominence, and magnitudes[i] is the
\* spectrum's magnitude at the bin of frequencies[i].
C5_TopByProminence ==
  FindReturned =>
     /\ Len(frequencies) = Min(5, Len(found.peaks))
     /\ DOMAIN magnitudes = DOMAIN frequencies
     /\ \A r \in Returned :
           /\ r[2] \in Range(found.peaks)
           /\ r[4] = MagnitudeSpectrum(signal)[r[2]]
     /\ \A r, q \in Returned :
           /\ r[1] # q[1] => r[2] # q[2]
           /\ r[1] < q[1] => r[3] >= q[3]
     /\ \A c \in LeftOut : \A r \in Returned : c[2] <= r[3]

\* C5, witness: more than 5 candidates, one left out that is less prominent
\* than a returned one, and the returned order is not the order of the bins
C5_Witness ==
  /\ FindReturned
  /\ sampling_rate > 0
  /\ Len(found.peaks) > 5
  /\ \E c \in LeftOut : \E r \in Returned : c[2] < r[3]
  /\ \E r, q \in Returned : r[1] < q[1] /\ r[2] > q[2] /\ r[4] > q[4]

\* analyze_phases has returned to analyze_signal
PhasesReturned == pc = "return" \/ (pc = "done" /\ outcome = "returned")

\* C6: for a non-empty components map, the keys of analyze_phases' result
\* are the keys of components but the minimum key, the reference frequency.
C6_PhasesExcludeReference ==
  PhasesReturned =>
     /\ DOMAIN components # {}
     /\ DOMAIN phases = DOMAIN components \ {SetMin(DOMAIN components)}
     /\ Cardinality(DOMAIN components) = 1 => DOMAIN phases = {}

\* C6, witness: three or more components, the reference not being the
\* first frequency of the list
C6_Witness ==
  /\ PhasesReturned
  /\ Cardinality(DOMAIN components) >= 3
  /\ frequencies[1] \in DOMAIN phases
  /\ Cardinality(DOMAIN phases) = Cardinality(DOMAIN components) - 1

\* C7: a signal of fewer than 2 * filter_order samples, or a sampling rate
\* <= 0, ends in an InvalidSignalError.
C7_InvalidSignalRejected ==
  (pc = "done" /\ (sampling_rate <= 0 \/ signal.len < 2 * FilterOrder))
     => outcome = "InvalidSignalError"

\* C8: find_dominant_frequencies ends in no error for a signal of 2 or more
\* samples and a positive sampling rate.
C8_AcceptsTwoOrMoreSamples ==
  (signal.len >= 2 /\ sampling_rate > 0) => failed_at # "find_dominant_frequencies"

\* C9: after a successful analyze_signal every component has len(signal)
\* samples and every phase series the length of its component.
C9_LengthsPreserved ==
  outcome = "returned" =>
     /\ \A f \in DOMAIN result.components : result.components[f].len = signal.len
     /\ \A f \in DOMAIN result.phases :
           /\ f \in DOMAIN result.components
           /\ result.phases[f].len = result.components[f].len
           /\ result.phases[f].len = signal.len

\* C9, witness: a successful analysis with components and phases
C9_Witness ==
  /\ outcome = "returned"
  /\ sampling_rate > 0
  /\ Cardinality(DOMAIN result.components) >= 2
  /\ DOMAIN result.phases # {}
  /\ signal.len > 100

\* every returned frequency belongs to a bin k with 1 <= k <= n//2 - 2
InteriorBins ==
  FindReturned =>
     \A i \in DOMAIN frequencies :
        \E k \in 1..(NumBins(signal.len) - 2) : PositiveFreq(k, sampling_rate) = frequencies[i]

\* C10: every returned frequency belongs to an interior bin, so it is above
\* 0 Hz and below the Nyquist frequency, and the reference frequency is
\* never 0 Hz.
C10_InteriorAboveZeroBelowNyquist ==
  /\ InteriorBins
  /\ FindReturned =>
       \A i \in DOMAIN frequencies :
          /\ frequencies[i] > 0
          /\ 20 * frequencies[i] < Nyquist(sampling_rate, signal.len)
  /\ \A f \in DOMAIN components : f # 0
====
